---- MODULE Spec2Model ----
(***************************************************************************)
(* Model of lsst::ip::isr::darkCurrentCorrectChunkExposure                 *)
(* (src/oldsrc/darkCurrentCorrectChunkExposure.cc).                        *)
(*                                                                         *)
(* A call is a sequence of steps, one per statement group of the routine;  *)
(* the in-place image operators (scale, subtract) are pixel loops whose    *)
(* loads and stores are separate steps, so that two calls running in       *)
(* different threads interleave at the granularity at which they race on a *)
(* shared pixel buffer.                                                    *)
(*                                                                         *)
(* Pixel values, exposure times and scale factors are IEEE 754 binary      *)
(* floating-point numbers: a sign, an odd mantissa and a binary exponent   *)
(* (or a signed zero), or an infinity, or NaN.  Every operation rounds its *)
(* exact result to the format of its C++ type (float: 24 bits, exponents   *)
(* up to 127, subnormals down to 2^-149; double: 53 bits, exponents up to  *)
(* 1023, subnormals down to 2^-1074), to nearest, ties to even.            *)
(*                                                                         *)
(* The image library (lsst::afw) is not part of the source: that the       *)
(* masked images of lines 66 and 74 share the pixel buffers of their       *)
(* exposures, and what its operators do to a pixel, is taken from the      *)
(* specification (its sections 3 and 5) and from the built-in arithmetic   *)
(* of C++.  The variance and mask planes are left out.                     *)
(***************************************************************************)
EXTENDS Integers, Sequences, FiniteSets, TLC

\* ------------------------------------------------------------------ bounds

\* Calls the worker threads enter in a concurrent run.
MaxCalls == 2

\* ---------------------------------------------------- arbitrary-size naturals

\* A natural is the little-endian sequence of its digits in base 2^LimbBits,
\* without a leading zero digit; the empty sequence is 0.
LimbBits == 12
Limb == 2^LimbBits

Abs(x) == IF x < 0 THEN -x ELSE x
Min(a, b) == IF a < b THEN a ELSE b
Max(a, b) == IF a < b THEN b ELSE a

Lo(a) == IF a = <<>> THEN 0 ELSE Head(a)
Rest(a) == IF a = <<>> THEN <<>> ELSE Tail(a)
Zeros(n) == [i \in 1..n |-> 0]

RECURSIVE BTrim(_)
BTrim(a) ==
    IF a = <<>> THEN <<>>
    ELSE IF a[Len(a)] = 0 THEN BTrim(SubSeq(a, 1, Len(a) - 1))
    ELSE a

RECURSIVE BFromInt(_)
BFromInt(n) == IF n = 0 THEN <<>> ELSE <<n % Limb>> \o BFromInt(n \div Limb)

RECURSIVE BToInt(_)
BToInt(a) == IF a = <<>> THEN 0 ELSE Head(a) + Limb * BToInt(Tail(a))

RECURSIVE BAddC(_, _, _)
BAddC(a, b, c) ==
    IF a = <<>> /\ b = <<>> THEN (IF c = 0 THEN <<>> ELSE <<c>>)
    ELSE LET x == Lo(a) + Lo(b) + c
         IN  <<x % Limb>> \o BAddC(Rest(a), Rest(b), x \div Limb)

BAdd(a, b) == BAddC(a, b, 0)

\* a - b - c for a >= b + c, digit by digit.
RECURSIVE BSubB(_, _, _)
BSubB(a, b, c) ==
    IF a = <<>> THEN <<>>
    ELSE LET x == Head(a) - Lo(b) - c
         IN  <<IF x < 0 THEN x + Limb ELSE x>>
             \o BSubB(Tail(a), Rest(b), IF x < 0 THEN 1 ELSE 0)

BSub(a, b) == BTrim(BSubB(a, b, 0))

RECURSIVE BLess(_, _)
BLess(a, b) ==
    IF Len(a) # Len(b) THEN Len(a) < Len(b)
    ELSE IF a = <<>> THEN FALSE
    ELSE IF a[Len(a)] # b[Len(b)] THEN a[Len(a)] < b[Len(b)]
    ELSE BLess(SubSeq(a, 1, Len(a) - 1), SubSeq(b, 1, Len(b) - 1))

\* a * k + c for a digit k.
RECURSIVE BMulSmall(_, _, _)
BMulSmall(a, k, c) ==
    IF a = <<>> THEN (IF c = 0 THEN <<>> ELSE <<c>>)
    ELSE LET x == Head(a) * k + c
         IN  <<x % Limb>> \o BMulSmall(Tail(a), k, x \div Limb)

RECURSIVE BMulRaw(_, _)
BMulRaw(a, b) ==
    IF b = <<>> THEN <<>>
    ELSE LET r == BMulRaw(a, Tail(b))
         IN  BAdd(BMulSmall(a, Head(b), 0), IF r = <<>> THEN <<>> ELSE <<0>> \o r)

BMul(a, b) == BTrim(BMulRaw(a, b))

\* a * 2^n
BShl(a, n) ==
    IF a = <<>> THEN <<>>
    ELSE Zeros(n \div LimbBits) \o BMulSmall(a, 2^(n % LimbBits), 0)

\* a \div 2^n
BShr(a, n) ==
    LET d == n \div LimbBits
        r == n % LimbBits
        t == IF d >= Len(a) THEN <<>> ELSE SubSeq(a, d + 1, Len(a))
    IN  BTrim([i \in 1..Len(t) |->
                  (t[i] \div 2^r)
                  + ((IF i < Len(t) THEN t[i + 1] ELSE 0) % 2^r) * 2^(LimbBits - r)])

RECURSIVE SmallBitLen(_)
SmallBitLen(x) == IF x = 0 THEN 0 ELSE 1 + SmallBitLen(x \div 2)

\* The number of binary digits of a.
BBitLen(a) ==
    IF a = <<>> THEN 0 ELSE LimbBits * (Len(a) - 1) + SmallBitLen(a[Len(a)])

\* Binary digit i of a (digit 0 is the lowest).
BBit(a, i) ==
    LET d == i \div LimbBits
    IN  IF d + 1 > Len(a) THEN 0 ELSE (a[d + 1] \div 2^(i % LimbBits)) % 2

\* Are the n lowest binary digits of a all zero?
BLowZero(a, n) ==
    LET d == n \div LimbBits
    IN  /\ \A i \in 1..Min(d, Len(a)) : a[i] = 0
        /\ d + 1 > Len(a) \/ a[d + 1] % 2^(n % LimbBits) = 0

RECURSIVE SmallTrailingZeros(_)
SmallTrailingZeros(x) == IF x % 2 = 1 THEN 0 ELSE 1 + SmallTrailingZeros(x \div 2)

\* The number of zero binary digits below the lowest one digit of a # 0.
RECURSIVE BTrailingZeros(_)
BTrailingZeros(a) ==
    IF Head(a) = 0 THEN LimbBits + BTrailingZeros(Tail(a))
    ELSE SmallTrailingZeros(Head(a))

\* ------------------------------------------------- floating-point arithmetic

\* Mantissa widths of float (lines 153, 161, 211) and double (lines 170,
\* 175, 219).
FloatBits == 24
DoubleBits == 53

\* The largest exponent of a format of p mantissa bits, and the exponent of
\* its smallest subnormal.
MaxExp(p) == IF p = FloatBits THEN 127 ELSE 1023
MinExp(p) == 2 - MaxExp(p) - p

\* (-1)^s * m * 2^e, the infinities and NaN.
Fin(s, m, e) == [k |-> "fin", s |-> s, m |-> m, e |-> e]
Zero == Fin(0, <<>>, 0)
NegZero == Fin(1, <<>>, 0)
Inf(s) == [k |-> "inf", s |-> s, m |-> <<>>, e |-> 0]
NaN == [k |-> "nan", s |-> 0, m |-> <<>>, e |-> 0]

IsZero(x) == x.k = "fin" /\ x.m = <<>>
Xor(a, b) == IF a = b THEN 0 ELSE 1

\* The one representation of (-1)^s * m * 2^e: the mantissa made odd; a
\* zero keeps its sign.
Canon(s, m, e) ==
    IF m = <<>> THEN Fin(s, <<>>, 0)
    ELSE LET tz == BTrailingZeros(m) IN Fin(s, BShr(m, tz), e + tz)

\* Overflow: a result beyond the largest number of the format is infinite.
Range(x, p) ==
    IF x.m # <<>> /\ x.e + BBitLen(x.m) - 1 > MaxExp(p) THEN Inf(x.s) ELSE x

\* (-1)^s * m * 2^e rounded to the format of p mantissa bits, to nearest,
\* ties to even: the last place kept is p digits below the leading one, or
\* that of the subnormals when the value is too small for it.
Round(s, m, e, p) ==
    LET last == Max(e + BBitLen(m) - p, MinExp(p))
    IN  IF m = <<>> \/ e >= last THEN Range(Canon(s, m, e), p)
        ELSE LET sh == last - e
                 q == BShr(m, sh)
                 up == /\ BBit(m, sh - 1) = 1
                       /\ ~BLowZero(m, sh - 1) \/ BBit(q, 0) = 1
             IN  Range(Canon(s, IF up THEN BAdd(q, <<1>>) ELSE q, last), p)

\* The float or double with the value of the integer n.
Float(n) == Canon(IF n < 0 THEN 1 ELSE 0, BFromInt(Abs(n)), 0)

\* The exact product and difference of two finite numbers, not yet rounded.
ExactMul(x, y) == [s |-> Xor(x.s, y.s), m |-> BMul(x.m, y.m), e |-> x.e + y.e]

ExactSub(x, y) ==
    LET e0 == Min(x.e, y.e)
        xm == BShl(x.m, x.e - e0)
        ym == BShl(y.m, y.e - e0)
    IN  IF x.s # y.s THEN [s |-> x.s, m |-> BAdd(xm, ym), e |-> e0]
        ELSE IF BLess(xm, ym) THEN [s |-> 1 - x.s, m |-> BSub(ym, xm), e |-> e0]
        ELSE IF xm = ym THEN [s |-> 0, m |-> <<>>, e |-> e0]
        ELSE [s |-> x.s, m |-> BSub(xm, ym), e |-> e0]

\* n binary digits of the fraction r/y (r < y) appended to q.
RECURSIVE DivBits(_, _, _, _)
DivBits(q, r, y, n) ==
    IF n = 0 THEN <<q, r>>
    ELSE LET b == IF 2 * r >= y THEN 1 ELSE 0
         IN  DivBits(2 * q + b, 2 * r - b * y, y, n - 1)

\* The quotient of two finite non-zero floats, rounded to a float: the
\* mantissas are aligned, FloatBits + 2 digits of the fraction are taken and
\* a last digit records whether a remainder is left.
FDivFinite(x, y) ==
    LET xi == BToInt(x.m)
        yi == BToInt(y.m)
        lx == SmallBitLen(xi)
        ly == SmallBitLen(yi)
        a == IF lx < ly THEN ly - lx ELSE 0
        b == IF lx > ly THEN lx - ly ELSE 0
        x1 == xi * 2^a
        y1 == yi * 2^b
        i0 == IF x1 >= y1 THEN 1 ELSE 0
        qr == DivBits(i0, x1 - i0 * y1, y1, FloatBits + 2)
        mm == 2 * qr[1] + (IF qr[2] # 0 THEN 1 ELSE 0)
    IN  Round(Xor(x.s, y.s), BFromInt(mm), x.e - y.e - a + b - (FloatBits + 3), FloatBits)

\* A slip: the ratio taken the wrong way round.
FDiv_inverted(x, y) ==
    IF x.k = "nan" \/ y.k = "nan" THEN NaN
    ELSE IF y.k = "inf" THEN (IF x.k = "inf" THEN NaN ELSE Inf(Xor(x.s, y.s)))
    ELSE IF x.k = "inf" THEN Fin(Xor(x.s, y.s), <<>>, 0)
    ELSE IF IsZero(x) THEN (IF IsZero(y) THEN NaN ELSE Inf(Xor(x.s, y.s)))
    ELSE IF IsZero(y) THEN Fin(Xor(x.s, y.s), <<>>, 0)
    ELSE FDivFinite(y, x)

\* exptime/mexptime (line 175): both operands are float, so the division is
\* a float division; its result is then widened to double, which changes
\* nothing.
FDiv(x, y) ==
    IF x.k = "nan" \/ y.k = "nan" THEN NaN
    ELSE IF x.k = "inf" THEN (IF y.k = "inf" THEN NaN ELSE Inf(Xor(x.s, y.s)))
    ELSE IF y.k = "inf" THEN Fin(Xor(x.s, y.s), <<>>, 0)
    ELSE IF IsZero(y) THEN (IF IsZero(x) THEN NaN ELSE Inf(Xor(x.s, y.s)))
    ELSE IF IsZero(x) THEN Fin(Xor(x.s, y.s), <<>>, 0)
    ELSE FDivFinite(x, y)

\* x == y of C++ (line 174): the two zeros are equal, NaN equals nothing.
FEq(x, y) ==
    /\ x.k # "nan"
    /\ y.k # "nan"
    /\ x = y \/ (IsZero(x) /\ IsZero(y))

\* A double converted to the format of p mantissa bits.
Narrow(x, p) == IF x.k = "fin" THEN Round(x.s, x.m, x.e, p) ELSE x

\* One pixel of  image *= scale  (lines 176, 185), in an image whose pixels
\* have p mantissa bits: the scale is a double, so the product is formed in
\* double and then converted to the pixel type.
FMul(x, y, p) ==
    IF x.k = "nan" \/ y.k = "nan" THEN NaN
    ELSE IF x.k = "inf" \/ y.k = "inf"
         THEN (IF IsZero(x) \/ IsZero(y) THEN NaN ELSE Inf(Xor(x.s, y.s)))
    ELSE LET r == ExactMul(x, y) IN Narrow(Round(r.s, r.m, r.e, DoubleBits), p)

\* One pixel of  image -= other  (lines 186, 188), in an image whose pixels
\* have p mantissa bits.
FSub(x, y, p) ==
    IF x.k = "nan" \/ y.k = "nan" THEN NaN
    ELSE IF x.k = "inf" THEN (IF y.k = "inf" /\ y.s = x.s THEN NaN ELSE x)
    ELSE IF y.k = "inf" THEN Inf(1 - y.s)
    ELSE LET r == ExactSub(x, y) IN Round(r.s, r.m, r.e, p)

\* if (darkScale)  (line 184): a double is true when it is not zero
IsNonZero(x) == ~IsZero(x)

\* ---------------------------------------------------------------- objects

Tasks == {"t1", "t2"}
Chunks == {"c1", "c2"}
Masters == {"m1", "m2"}

\* ------------------------------------------------------- metadata (DataProperty)

\* A metadata node is an ordered list of child properties, each a name with a
\* value of some type (boost::any); addProperty appends, findUnique looks a
\* child up by name.
NoValue == [kind |-> "none", int |-> 0, flt |-> Zero, str |-> ""]
IntVal(i) == [kind |-> "int", int |-> i, flt |-> Zero, str |-> ""]
FloatVal(r) == [kind |-> "float", int |-> 0, flt |-> r, str |-> ""]
StrVal(s) == [kind |-> "string", int |-> 0, flt |-> Zero, str |-> s]
Prop(k, v) == [key |-> k, val |-> v]

\* Indexes of the children of meta named key.
Matches(meta, key) == {i \in 1..Len(meta) : meta[i].key = key}

\* findUnique(key): the index of the child named key, 0 for the null pointer.
FindUnique(meta, key) ==
    IF Matches(meta, key) = {} THEN 0
    ELSE CHOOSE i \in Matches(meta, key) : \A j \in Matches(meta, key) : i <= j

\* addProperty(DataProperty(key)): a new child with no value, at the end.
AddProperty(meta, key) == Append(meta, Prop(key, NoValue))

\* prop->setValue(v) on the child at index i.
SetValue(meta, i, v) == [meta EXCEPT ![i].val = v]

exitTrue == "Completed Successfully"

\* ----------------------------------------------------------------- errors

NoError == [type |-> "none", key |-> "", side |-> ""]
\* lsst::pex::exceptions::Runtime (line 83)
AlreadyCorrected == [type |-> "Runtime", key |-> "ISR_DARKCOR", side |-> "chunk"]
\* lsst::pex::exceptions::LengthError (line 96)
DimensionMismatch == [type |-> "LengthError", key |-> "", side |-> ""]
\* lsst::pex::exceptions::RangeError (lines 123, 143)
IdentityMismatch(k) == [type |-> "RangeError", key |-> k, side |-> ""]
\* lsst::pex::exceptions::NotFound (lines 111, 119, 131, 139, 157, 165)
MissingMetadata(k, s) == [type |-> "NotFound", key |-> k, side |-> s]
\* Policy::getPolicy / getString / getDouble on an absent name (lines 102,
\* 103, 170)
MissingConfiguration(k) == [type |-> "NameNotFound", key |-> k, side |-> "policy"]
\* boost::bad_any_cast out of any_cast<const int> (lines 109, 117, 129, 137)
\* or any_cast<const float> (lines 155, 163)
BadAnyCast(k, s) == [type |-> "bad_any_cast", key |-> k, side |-> s]

\* ------------------------------------------------------------------ state

VARIABLES
    chunkPix,       \* chunk -> pixel plane of the chunk exposure
    chunkMeta,      \* chunk -> metadata of the chunk exposure's image
    chunkDims,      \* chunk -> <<cols, rows>>
    masterPix,      \* master -> pixel plane of the master dark exposure
    masterMeta,     \* master -> metadata of the master dark exposure's image
    masterDims,     \* master -> <<cols, rows>>
    pixelBits,      \* mantissa bits of ImageT, the exposures' pixel type
    isrPolicy,      \* the ISR policy
    pc,             \* task -> position in the routine
    arg,            \* task -> the exposures the call was given
    loc,            \* task -> the call's local variables
    err,            \* task -> the exception the call ended with
    pre,            \* task -> the data as it was when the call was entered
    origChunkPix,   \* chunk -> pixel plane before any correction
    origMasterPix,  \* master -> pixel plane before any correction
    subCount,       \* chunk -> per pixel, the number of subtractions stored
    ref,            \* chunk -> master of its last completed correction
    corrPix,        \* chunk -> pixel plane its first completed correction left
    calls           \* calls entered so far by the worker threads

vars == <<chunkPix, chunkMeta, chunkDims, masterPix, masterMeta, masterDims,
          pixelBits, isrPolicy, pc, arg, loc, err, pre, origChunkPix,
          origMasterPix, subCount, ref, corrPix, calls>>

\* What a call of the routine never writes.
images == <<chunkDims, masterDims, masterMeta, pixelBits, isrPolicy,
            origChunkPix, origMasterPix>>

NoArg == [chunk |-> "", master |-> ""]
NoLoc == [chunkType |-> "", exptime |-> Zero, mexptime |-> Zero,
          darkScale |-> Zero, scale |-> Zero, idx |-> 0,
          tmp |-> Zero, tmp2 |-> Zero]
NoPre == [chunkPix |-> <<>>, chunkMeta |-> <<>>, masterPix |-> <<>>]

\* ------------------------------------------------------------------ inputs

Plane(a, b) == <<Float(a), Float(b)>>

\* A metadata node holding those of AMPID, CCDID and EXPTIME that are given
\* (NoValue stands for a key that is not there).
Meta(ampid, ccdid, exptime) ==
    (IF ampid = NoValue THEN <<>> ELSE <<Prop("AMPID", ampid)>>)
    \o (IF ccdid = NoValue THEN <<>> ELSE <<Prop("CCDID", ccdid)>>)
    \o (IF exptime = NoValue THEN <<>> ELSE <<Prop("EXPTIME", exptime)>>)

\* The usual metadata: int identifiers and a float exposure time.
IdMeta(ampid, ccdid, exptime) ==
    Meta(IntVal(ampid), IntVal(ccdid), FloatVal(Float(exptime)))

\* An ISR policy with a darkPolicy subtree holding those of chunkType and
\* darkScale that are given.
Policy(hasType, type, hasScale, scale) ==
    [dark |-> TRUE,
     keys |-> (IF hasType THEN {"chunkType"} ELSE {})
              \cup (IF hasScale THEN {"darkScale"} ELSE {}),
     chunkType |-> IF hasType THEN type ELSE "",
     darkScale |-> IF hasScale THEN scale ELSE Zero]

\* An ISR policy without a darkPolicy subtree.
NoDarkPolicy == [dark |-> FALSE, keys |-> {}, chunkType |-> "", darkScale |-> Zero]

ChunkTypeChoices == {"amp", "ccd", "raft"}
\* darkScale 0 and 1.5
DarkScaleChoices == {Zero, Fin(0, <<3>>, -1)}
\* A darkScale of 53 bits, 0x1.555556aaaaaabp-2: three times it lies just
\* above the middle of two floats.
LongDarkScale == Fin(0, <<2731, 2730, 1386, 1365, 21>>, -54)

PolicyChoices ==
    {Policy(TRUE, ty, TRUE, ds) : ty \in ChunkTypeChoices, ds \in DarkScaleChoices}
    \cup {Policy(FALSE, "", TRUE, Fin(0, <<3>>, -1)), Policy(TRUE, "amp", FALSE, Zero),
          Policy(FALSE, "", FALSE, Zero), Policy(TRUE, "amp", TRUE, LongDarkScale),
          NoDarkPolicy}

\* AMPID of chunk c1: absent, the master's, another, or not an int.
AmpidChoices == {NoValue, IntVal(3), IntVal(7), StrVal("3")}
\* CCDID of chunk c1: absent or the master's.
CcdidChoices == {NoValue, IntVal(3)}
\* The smallest positive float, 2^-149.
TinyFloat == Fin(0, <<1>>, MinExp(FloatBits))

\* EXPTIME of chunk c1: absent, the master's 30 s, 10 s, the smallest positive
\* float, or not a float.
ExptimeChoices ==
    {NoValue, FloatVal(Float(30)), FloatVal(Float(10)), FloatVal(TinyFloat), IntVal(30)}

\* Metadata of master m2: complete (EXPTIME 15 s against the chunk's 30 s),
\* or with one entry absent or of another type, or with EXPTIME 0, -0 or the
\* smallest positive float.
MasterMetaChoices ==
    {Meta(IntVal(3), IntVal(7), FloatVal(Float(15))),
     Meta(NoValue, IntVal(7), FloatVal(Float(15))),
     Meta(IntVal(3), NoValue, FloatVal(Float(15))),
     Meta(IntVal(3), FloatVal(Float(3)), FloatVal(Float(15))),
     Meta(IntVal(3), IntVal(7), NoValue),
     Meta(IntVal(3), IntVal(7), IntVal(15)),
     Meta(IntVal(3), IntVal(7), FloatVal(Zero)),
     Meta(IntVal(3), IntVal(7), FloatVal(NegZero)),
     Meta(IntVal(3), IntVal(7), FloatVal(TinyFloat)),
     Meta(NoValue, IntVal(7), NoValue)}

\* The exposures c2 and m2: two pixels each and one of the metadata above for
\* m2, or images without pixels.
PairChoices ==
    {[dims |-> <<1, 2>>, chunkPix |-> Plane(300, 50), masterPix |-> Plane(6, -2),
      masterMeta |-> mm] : mm \in MasterMetaChoices}
    \cup {[dims |-> <<0, 0>>, chunkPix |-> <<>>, masterPix |-> <<>>,
           masterMeta |-> Meta(IntVal(3), IntVal(7), FloatVal(Float(15)))]}

\* ------------------------------------------------------------------- Init

\* What every initial state shares: nothing is running, no chunk has been
\* corrected, and the original pixel planes are remembered.
Start ==
    /\ chunkPix = origChunkPix
    /\ masterPix = origMasterPix
    /\ pc = [t \in Tasks |-> "idle"]
    /\ arg = [t \in Tasks |-> NoArg]
    /\ loc = [t \in Tasks |-> NoLoc]
    /\ err = [t \in Tasks |-> NoError]
    /\ pre = [t \in Tasks |-> NoPre]
    /\ subCount = [c \in Chunks |-> [i \in 1..Len(origChunkPix[c]) |-> 0]]
    /\ ref = [c \in Chunks |-> ""]
    /\ corrPix = [c \in Chunks |-> <<>>]
    /\ calls = 0

Init ==
    /\ \E p \in PairChoices :
          /\ origChunkPix = [c \in Chunks |-> IF c = "c1" THEN Plane(100, 200) ELSE p.chunkPix]
          /\ origMasterPix = [m \in Masters |-> IF m = "m1" THEN Plane(3, 7) ELSE p.masterPix]
          /\ chunkDims = [c \in Chunks |-> IF c = "c1" THEN <<2, 1>> ELSE p.dims]
          /\ masterDims = [m \in Masters |-> IF m = "m1" THEN <<2, 1>> ELSE p.dims]
          /\ masterMeta = [m \in Masters |-> IF m = "m1" THEN IdMeta(3, 3, 30) ELSE p.masterMeta]
    /\ pixelBits \in {FloatBits, DoubleBits}
    /\ \E a \in AmpidChoices, c \in CcdidChoices, e \in ExptimeChoices :
          chunkMeta = [x \in Chunks |-> IF x = "c1" THEN Meta(a, c, e) ELSE IdMeta(3, 3, 30)]
    /\ isrPolicy \in PolicyChoices
    /\ Start

\* ---------------------------------------------------------------- actions

\* The element that follows p in order (idle after the last).
Successor(order, p) ==
    IF \E i \in 1..(Len(order) - 1) : order[i] = p
    THEN order[(CHOOSE i \in 1..(Len(order) - 1) : order[i] = p) + 1]
    ELSE "idle"

\* The routine's statements in the order of its text (lines 80-204); the
\* pixel loops of the three image operators are tsLoad/tsStore (line 176),
\* dsLoad/dsStore (line 185) and subLoad/subStore (lines 186, 188; between
\* the two loads of a subtraction the call stands at subLoadC or subLoadM).
ProgramOrder ==
    <<"gate", "geometry", "chunkType", "identity", "exptime", "mexptime",
      "darkScale", "timeScale", "tsLoad", "tsStore", "darkScaleTest",
      "dsLoad", "dsStore", "subLoad", "subStore", "addProperty", "setValue",
      "setMetadata", "done">>

\* A slip: the exposure times are read before the identity is checked.
NextStmt_exptimeFirst(p) ==
    Successor(<<"gate", "geometry", "chunkType", "exptime", "mexptime",
                "identity", "darkScale", "timeScale", "tsLoad", "tsStore",
                "darkScaleTest", "dsLoad", "dsStore", "subLoad", "subStore",
                "addProperty", "setValue", "setMetadata", "done">>, p)

\* A slip: darkScale is read where it is used, after the time scaling.
NextStmt_darkScaleLate(p) ==
    Successor(<<"gate", "geometry", "chunkType", "identity", "exptime",
                "mexptime", "timeScale", "tsLoad", "tsStore", "darkScale",
                "darkScaleTest", "dsLoad", "dsStore", "subLoad", "subStore",
                "addProperty", "setValue", "setMetadata", "done">>, p)

\* A slip: ISR_DARKCOR is recorded before the reference is subtracted.
NextStmt_stampFirst(p) ==
    Successor(<<"gate", "geometry", "chunkType", "identity", "exptime",
                "mexptime", "darkScale", "timeScale", "tsLoad", "tsStore",
                "darkScaleTest", "dsLoad", "dsStore", "addProperty", "setValue",
                "subLoad", "subStore", "setMetadata", "done">>, p)

\* The statement that follows statement p.
NextStmt(p) == Successor(ProgramOrder, p)

Chunk(t) == arg[t].chunk
Master(t) == arg[t].master

\* throw: the call ends with exception e; nothing else is touched.
Throw(t, e) ==
    /\ pc' = [pc EXCEPT ![t] = "failed"]
    /\ err' = [err EXCEPT ![t] = e]

Goto(t, p) ==
    /\ pc' = [pc EXCEPT ![t] = p]
    /\ err' = err

\* Entry (lines 57-75): the routine takes handles on the two exposures'
\* masked images and metadata; the handles share the exposures' buffers.
Call(t, c, m) ==
    /\ pc[t] = "idle"
    /\ pc' = [pc EXCEPT ![t] = "gate"]
    /\ arg' = [arg EXCEPT ![t] = [chunk |-> c, master |-> m]]
    /\ pre' = [pre EXCEPT ![t] = [chunkPix |-> chunkPix[c],
                                  chunkMeta |-> chunkMeta[c],
                                  masterPix |-> masterPix[m]]]
    /\ UNCHANGED <<chunkPix, chunkMeta, masterPix, loc, err, subCount, ref, corrPix, images>>

\* A slip: the gate lets every chunk through.
GatePasses_always(meta) == TRUE

\* Lines 80-84: has this sub-stage run on the chunk before?
GatePasses(meta) == FindUnique(meta, "ISR_DARKCOR") = 0

Gate(t) ==
    /\ pc[t] = "gate"
    /\ IF GatePasses(chunkMeta[Chunk(t)])
       THEN Goto(t, NextStmt("gate"))
       ELSE Throw(t, AlreadyCorrected)
    /\ UNCHANGED <<chunkPix, chunkMeta, masterPix, arg, loc, pre, subCount, ref, corrPix, images, calls>>

\* A slip: the pixel counts are compared, not the two dimensions.
SameSize_area(d, md) == d[1] * d[2] = md[1] * md[2]

\* Lines 89-97: the two masked images must have the same size.
SameSize(d, md) == ~(d[1] # md[1] \/ d[2] # md[2])

Geometry(t) ==
    /\ pc[t] = "geometry"
    /\ IF SameSize(chunkDims[Chunk(t)], masterDims[Master(t)])
       THEN Goto(t, NextStmt("geometry"))
       ELSE Throw(t, DimensionMismatch)
    /\ UNCHANGED <<chunkPix, chunkMeta, masterPix, arg, loc, pre, subCount, ref, corrPix, images, calls>>

\* Lines 102-103: isrPolicy.getPolicy("darkPolicy"), then
\* darkPolicy->getString("chunkType").
GetChunkType(t) ==
    /\ pc[t] = "chunkType"
    /\ IF ~isrPolicy.dark
       THEN /\ Throw(t, MissingConfiguration("darkPolicy"))
            /\ loc' = loc
       ELSE IF "chunkType" \in isrPolicy.keys
       THEN /\ Goto(t, NextStmt("chunkType"))
            /\ loc' = [loc EXCEPT ![t].chunkType = isrPolicy.chunkType]
       ELSE /\ Throw(t, MissingConfiguration("chunkType"))
            /\ loc' = loc
    /\ UNCHANGED <<chunkPix, chunkMeta, masterPix, arg, pre, subCount, ref, corrPix, images, calls>>

\* Lines 106-124 (key AMPID) and 126-144 (key CCDID): the chunk's value is
\* looked up and cast to int, then the master's, then the two are compared.
IdCheck(key, meta, mmeta) ==
    LET i == FindUnique(meta, key)
        j == FindUnique(mmeta, key)
    IN  IF i = 0 THEN MissingMetadata(key, "chunk")
        ELSE IF meta[i].val.kind # "int" THEN BadAnyCast(key, "chunk")
        ELSE IF j = 0 THEN MissingMetadata(key, "master")
        ELSE IF mmeta[j].val.kind # "int" THEN BadAnyCast(key, "master")
        ELSE IF meta[i].val.int # mmeta[j].val.int THEN IdentityMismatch(key)
        ELSE NoError

\* Lines 105-148: the check the configured chunkType asks for.
IdentityCheck(type, meta, mmeta) ==
    IF type = "amp" THEN IdCheck("AMPID", meta, mmeta)
    ELSE IF type = "ccd" THEN IdCheck("CCDID", meta, mmeta)
    ELSE NoError

Identity(t) ==
    /\ pc[t] = "identity"
    /\ LET e == IdentityCheck(loc[t].chunkType, chunkMeta[Chunk(t)], masterMeta[Master(t)])
       IN  IF e = NoError THEN Goto(t, NextStmt("identity")) ELSE Throw(t, e)
    /\ UNCHANGED <<chunkPix, chunkMeta, masterPix, arg, loc, pre, subCount, ref, corrPix, images, calls>>

\* Lines 152-158: EXPTIME of the chunk, cast to float.
GetExptime(t) ==
    /\ pc[t] = "exptime"
    /\ LET meta == chunkMeta[Chunk(t)]
           i == FindUnique(meta, "EXPTIME")
       IN  IF i = 0
           THEN /\ Throw(t, MissingMetadata("EXPTIME", "chunk"))
                /\ loc' = loc
           ELSE IF meta[i].val.kind # "float"
           THEN /\ Throw(t, BadAnyCast("EXPTIME", "chunk"))
                /\ loc' = loc
           ELSE /\ Goto(t, NextStmt("exptime"))
                /\ loc' = [loc EXCEPT ![t].exptime = meta[i].val.flt]
    /\ UNCHANGED <<chunkPix, chunkMeta, masterPix, arg, pre, subCount, ref, corrPix, images, calls>>

\* Lines 160-166: EXPTIME of the master, cast to float.
GetMExptime(t) ==
    /\ pc[t] = "mexptime"
    /\ LET meta == masterMeta[Master(t)]
           i == FindUnique(meta, "EXPTIME")
       IN  IF i = 0
           THEN /\ Throw(t, MissingMetadata("EXPTIME", "master"))
                /\ loc' = loc
           ELSE IF meta[i].val.kind # "float"
           THEN /\ Throw(t, BadAnyCast("EXPTIME", "master"))
                /\ loc' = loc
           ELSE /\ Goto(t, NextStmt("mexptime"))
                /\ loc' = [loc EXCEPT ![t].mexptime = meta[i].val.flt]
    /\ UNCHANGED <<chunkPix, chunkMeta, masterPix, arg, pre, subCount, ref, corrPix, images, calls>>

\* Line 170: darkPolicy->getDouble("darkScale").
GetDarkScale(t) ==
    /\ pc[t] = "darkScale"
    /\ IF "darkScale" \in isrPolicy.keys
       THEN /\ Goto(t, NextStmt("darkScale"))
            /\ loc' = [loc EXCEPT ![t].darkScale = isrPolicy.darkScale]
       ELSE /\ Throw(t, MissingConfiguration("darkScale"))
            /\ loc' = loc
    /\ UNCHANGED <<chunkPix, chunkMeta, masterPix, arg, pre, subCount, ref, corrPix, images, calls>>

\* Line 174: is the master scaled by the ratio of the exposure times?
NeedsTimeScale(exptime, mexptime) == ~FEq(exptime, mexptime)

\* Lines 174-175: the test, and the scale the loop of line 176 will apply.
TimeScale(t) ==
    /\ pc[t] = "timeScale"
    /\ IF NeedsTimeScale(loc[t].exptime, loc[t].mexptime)
       THEN /\ Goto(t, NextStmt("timeScale"))
            /\ loc' = [loc EXCEPT ![t].scale = FDiv(loc[t].exptime, loc[t].mexptime),
                                  ![t].idx = 1]
       ELSE /\ Goto(t, NextStmt("tsStore"))
            /\ loc' = loc
    /\ UNCHANGED <<chunkPix, chunkMeta, masterPix, arg, pre, subCount, ref, corrPix, images, calls>>

\* Line 184: is the master scaled by darkScale?
DarkScaleTest(t) ==
    /\ pc[t] = "darkScaleTest"
    /\ IF IsNonZero(loc[t].darkScale)
       THEN /\ Goto(t, NextStmt("darkScaleTest"))
            /\ loc' = [loc EXCEPT ![t].idx = 1]
       ELSE /\ Goto(t, NextStmt("dsStore"))
            /\ loc' = [loc EXCEPT ![t].idx = 1]
    /\ UNCHANGED <<chunkPix, chunkMeta, masterPix, arg, pre, subCount, ref, corrPix, images, calls>>

\* masterChunkMaskedImage *= scale (lines 176, 185), one pixel: the load;
\* an image without pixels leaves the loop at once.
\* The masked image is the handle of line 74 on the master exposure's buffer.
ScaleLoad(t) ==
    /\ pc[t] \in {"tsLoad", "dsLoad"}
    /\ IF masterPix[Master(t)] = <<>>
       THEN /\ Goto(t, NextStmt(NextStmt(pc[t])))
            /\ loc' = loc
       ELSE /\ Goto(t, NextStmt(pc[t]))
            /\ loc' = [loc EXCEPT ![t].tmp = masterPix[Master(t)][loc[t].idx]]
    /\ UNCHANGED <<chunkPix, chunkMeta, masterPix, arg, pre, subCount, ref, corrPix, images, calls>>

\* masterChunkMaskedImage *= scale (line 176) or *= darkScale (line 185), one
\* pixel: the store, and the loop's step.
ScaleStore(t) ==
    /\ pc[t] \in {"tsStore", "dsStore"}
    /\ LET factor == IF pc[t] = "tsStore" THEN loc[t].scale ELSE loc[t].darkScale
       IN  masterPix' = [masterPix EXCEPT
                            ![Master(t)][loc[t].idx] = FMul(loc[t].tmp, factor, pixelBits)]
    /\ IF loc[t].idx < Len(masterPix[Master(t)])
       THEN /\ Goto(t, IF pc[t] = "tsStore" THEN "tsLoad" ELSE "dsLoad")
            /\ loc' = [loc EXCEPT ![t].idx = loc[t].idx + 1]
       ELSE /\ Goto(t, NextStmt(pc[t]))
            /\ loc' = [loc EXCEPT ![t].idx = 1]
    /\ UNCHANGED <<chunkPix, chunkMeta, arg, pre, subCount, ref, corrPix, images, calls>>

\* chunkMaskedImage -= masterChunkMaskedImage (lines 186, 188), one pixel:
\* the load of the chunk's pixel, before or after that of the master's; an
\* image without pixels leaves the loop at once.
SubLoadChunk(t) ==
    /\ pc[t] \in {"subLoad", "subLoadC"}
    /\ IF chunkPix[Chunk(t)] = <<>>
       THEN /\ Goto(t, NextStmt(NextStmt("subLoad")))
            /\ loc' = loc
       ELSE /\ Goto(t, IF pc[t] = "subLoad" THEN "subLoadM" ELSE NextStmt("subLoad"))
            /\ loc' = [loc EXCEPT ![t].tmp = chunkPix[Chunk(t)][loc[t].idx]]
    /\ UNCHANGED <<chunkPix, chunkMeta, masterPix, arg, pre, subCount, ref, corrPix, images, calls>>

\* chunkMaskedImage -= masterChunkMaskedImage, one pixel: the load of the
\* master's pixel, before or after that of the chunk's.
SubLoadMaster(t) ==
    /\ pc[t] \in {"subLoad", "subLoadM"}
    /\ IF chunkPix[Chunk(t)] = <<>>
       THEN /\ Goto(t, NextStmt(NextStmt("subLoad")))
            /\ loc' = loc
       ELSE /\ Goto(t, IF pc[t] = "subLoad" THEN "subLoadC" ELSE NextStmt("subLoad"))
            /\ loc' = [loc EXCEPT ![t].tmp2 = masterPix[Master(t)][loc[t].idx]]
    /\ UNCHANGED <<chunkPix, chunkMeta, masterPix, arg, pre, subCount, ref, corrPix, images, calls>>

\* chunkMaskedImage -= masterChunkMaskedImage, one pixel: the store.
SubStore(t) ==
    /\ pc[t] = "subStore"
    /\ chunkPix' = [chunkPix EXCEPT ![Chunk(t)][loc[t].idx] = FSub(loc[t].tmp, loc[t].tmp2, pixelBits)]
    /\ subCount' = [subCount EXCEPT ![Chunk(t)][loc[t].idx] = @ + 1]
    /\ IF loc[t].idx < Len(chunkPix[Chunk(t)])
       THEN /\ Goto(t, "subLoad")
            /\ loc' = [loc EXCEPT ![t].idx = loc[t].idx + 1]
       ELSE /\ Goto(t, NextStmt("subStore"))
            /\ loc' = [loc EXCEPT ![t].idx = 1]
    /\ UNCHANGED <<chunkMeta, masterPix, arg, pre, ref, corrPix, images, calls>>

\* Line 192: chunkMetadata->addProperty(DataProperty("ISR_DARKCOR")).
AddProvenance(t) ==
    /\ pc[t] = "addProperty"
    /\ chunkMeta' = [chunkMeta EXCEPT ![Chunk(t)] = AddProperty(@, "ISR_DARKCOR")]
    /\ Goto(t, NextStmt("addProperty"))
    /\ UNCHANGED <<chunkPix, masterPix, arg, loc, pre, subCount, ref, corrPix, images, calls>>

\* A slip: the new property is never given its value.
RecordProvenance_skipped(meta) == meta

\* Lines 193-195: findUnique("ISR_DARKCOR"), then setValue(exitTrue).
RecordProvenance(meta) ==
    SetValue(meta, FindUnique(meta, "ISR_DARKCOR"), StrVal(exitTrue))

SetProvenance(t) ==
    /\ pc[t] = "setValue"
    /\ chunkMeta' = [chunkMeta EXCEPT ![Chunk(t)] = RecordProvenance(@)]
    /\ Goto(t, NextStmt("setValue"))
    /\ UNCHANGED <<chunkPix, masterPix, arg, loc, pre, subCount, ref, corrPix, images, calls>>

\* Lines 197-204: setMetadata hands the image the node it already has; the
\* routine returns normally.
SetMetadata(t) ==
    /\ pc[t] = "setMetadata"
    /\ ref' = [ref EXCEPT ![Chunk(t)] = Master(t)]
    /\ corrPix' = [corrPix EXCEPT ![Chunk(t)] = IF @ = <<>> THEN chunkPix[Chunk(t)] ELSE @]
    /\ Goto(t, NextStmt("setMetadata"))
    /\ UNCHANGED <<chunkPix, chunkMeta, masterPix, arg, loc, pre, subCount, images, calls>>

\* The caller has the result (a normal return or the exception) and the task
\* is free for its next chunk.
Return(t) ==
    /\ pc[t] \in {"done", "failed"}
    /\ pc' = [pc EXCEPT ![t] = "idle"]
    /\ arg' = [arg EXCEPT ![t] = NoArg]
    /\ loc' = [loc EXCEPT ![t] = NoLoc]
    /\ err' = [err EXCEPT ![t] = NoError]
    /\ pre' = [pre EXCEPT ![t] = NoPre]
    /\ UNCHANGED <<chunkPix, chunkMeta, masterPix, subCount, ref, corrPix, images, calls>>

Step(t) ==
    \/ Gate(t)
    \/ Geometry(t)
    \/ GetChunkType(t)
    \/ Identity(t)
    \/ GetExptime(t)
    \/ GetMExptime(t)
    \/ GetDarkScale(t)
    \/ TimeScale(t)
    \/ DarkScaleTest(t)
    \/ ScaleLoad(t)
    \/ ScaleStore(t)
    \/ SubLoadChunk(t)
    \/ SubLoadMaster(t)
    \/ SubStore(t)
    \/ AddProvenance(t)
    \/ SetProvenance(t)
    \/ SetMetadata(t)
    \/ Return(t)

\* One call at a time: a call is entered only when no other is running.
SeqCall(t, c, m) ==
    /\ \A u \in Tasks : pc[u] = "idle"
    /\ Call(t, c, m)
    /\ calls' = calls

Next ==
    \E t \in Tasks :
        \/ \E c \in Chunks, m \in Masters : SeqCall(t, c, m)
        \/ Step(t)

Spec == Init /\ [][Next]_vars

\* Worker threads: a task may enter the routine while another is inside it.
\* The exposures are valid, so that the calls get as far as the pixel loops.
InitConc ==
    /\ origChunkPix = [c \in Chunks |-> IF c = "c1" THEN Plane(100, 200) ELSE Plane(300, 50)]
    /\ origMasterPix = [m \in Masters |-> IF m = "m1" THEN Plane(4, 8) ELSE Plane(6, -2)]
    /\ chunkDims = [c \in Chunks |-> <<2, 1>>]
    /\ masterDims = [m \in Masters |-> IF m = "m1" THEN <<2, 1>> ELSE <<1, 2>>]
    /\ pixelBits \in {FloatBits, DoubleBits}
    /\ chunkMeta = [x \in Chunks |-> IdMeta(3, 3, 30)]
    /\ masterMeta = [m \in Masters |-> IF m = "m1" THEN IdMeta(3, 3, 15) ELSE IdMeta(3, 7, 30)]
    /\ isrPolicy \in {Policy(TRUE, "amp", TRUE, ds) : ds \in DarkScaleChoices}
    /\ Start

\* The pipeline hands out a bounded number of calls, one chunk per task: a
\* chunk is given to a task only while no other task holds it.
ConcCall(t, c, m) ==
    /\ calls < MaxCalls
    /\ \A u \in Tasks : arg[u].chunk # c
    /\ Call(t, c, m)
    /\ calls' = calls + 1

NextConc ==
    \E t \in Tasks :
        \/ \E c \in Chunks, m \in Masters : ConcCall(t, c, m)
        \/ Step(t)

SpecConc == InitConc /\ [][NextConc]_vars

\* ============================================================ properties

\* What the properties below say about a call, read off the state without
\* the routine's own helpers.
Finished(t) == pc[t] \in {"done", "failed"}
Succeeded(t) == pc[t] = "done"
Failed(t) == pc[t] = "failed"

HasKey(meta, k) == \E i \in 1..Len(meta) : meta[i].key = k
Entry(meta, k) == meta[CHOOSE i \in 1..Len(meta) : meta[i].key = k]
Count(meta, k) == Cardinality({i \in 1..Len(meta) : meta[i].key = k})

\* Exact arithmetic on finite numbers: nothing is rounded, and zero has no
\* sign.
Unsigned(x) == IF x.m = <<>> THEN Zero ELSE x
DMul(x, y) == LET r == ExactMul(x, y) IN Unsigned(Canon(r.s, r.m, r.e))
DSub(x, y) == LET r == ExactSub(x, y) IN Unsigned(Canon(r.s, r.m, r.e))
DAbs(x) == [x EXCEPT !.s = 0]
DLeq(x, y) == LET d == DSub(x, y) IN d.m = <<>> \/ d.s = 1
Pow2(n) == Fin(0, <<1>>, n)

\* The call's inputs as they were when it was entered.
PreStamped(t) == HasKey(pre[t].chunkMeta, "ISR_DARKCOR")
DimsDiffer(t) == chunkDims[Chunk(t)] # masterDims[Master(t)]
ChunkExptime(t) == Entry(pre[t].chunkMeta, "EXPTIME").val.flt
MasterExptime(t) == Entry(masterMeta[Master(t)], "EXPTIME").val.flt

\* The call left the chunk's pixels and metadata and the reference's pixels
\* as it found them.
Untouched(t) ==
    /\ chunkPix[Chunk(t)] = pre[t].chunkPix
    /\ chunkMeta[Chunk(t)] = pre[t].chunkMeta
    /\ masterPix[Master(t)] = pre[t].masterPix

OnePass(c) == \A i \in 1..Len(subCount[c]) : subCount[c][i] = 1

\* ---- C1
\* C1: once a call on a chunk has succeeded, every later call on that chunk
\* fails with AlreadyCorrected (Runtime), the chunk's pixels stay exactly as
\* the first successful call left them, and so the reference is subtracted
\* from a chunk at most once.
C1_Idempotent ==
    /\ \A t \in Tasks :
          Finished(t) /\ PreStamped(t) => err[t] = AlreadyCorrected
    /\ \A c \in Chunks : corrPix[c] # <<>> => chunkPix[c] = corrPix[c]
    /\ \A c \in Chunks : \A i \in 1..Len(subCount[c]) : subCount[c][i] <= 1

\* A second call on a corrected chunk has been rejected.
C1_Witness ==
    \E t \in Tasks :
        /\ Failed(t)
        /\ err[t] = AlreadyCorrected
        /\ OnePass(Chunk(t))
        /\ chunkPix[Chunk(t)] # origChunkPix[Chunk(t)]

\* ---- C3
\* The claim's equation for one pixel: c1 = c - m * r with m the effective
\* multiplier of exposure times e and me and darkScale ds, in exact
\* arithmetic (both sides multiplied by me, to do without the division).
ClaimedPixel(c1, c, r, e, me, ds) ==
    LET k == IF ~IsZero(ds) THEN DMul(r, ds) ELSE r
    IN  /\ c1.k = "fin"
        /\ IF Unsigned(e) # Unsigned(me)
           THEN DMul(c1, me) = DSub(DMul(c, me), DMul(e, k))
           ELSE Unsigned(c1) = DSub(c, k)

\* C3 as stated: after a successful correction every pixel of the chunk is
\* exactly chunkPixel - m * referencePixel, with chunkPixel and
\* referencePixel the values the call was given and m the effective
\* multiplier of the exposure times and darkScale.
C3_AsStated ==
    \A t \in Tasks :
        Succeeded(t) /\ ~IsZero(MasterExptime(t)) =>
            \A i \in 1..Len(pre[t].chunkPix) :
                ClaimedPixel(chunkPix[Chunk(t)][i], pre[t].chunkPix[i], pre[t].masterPix[i],
                             ChunkExptime(t), MasterExptime(t), isrPolicy.darkScale)

\* The middle of the largest float and the power of two above it: a
\* quotient of at least this size is infinite in single precision.
FloatOverflow == Fin(0, BFromInt(2^(FloatBits + 1) - 1), MaxExp(FloatBits) - FloatBits)

\* q is x / y (y not zero) in single precision.  Infinite: the quotient is
\* beyond the floats.  Finite: q is a float (mantissa of FloatBits digits at
\* most, last place not below that of the subnormals) and lies within half
\* a unit of its last place of the quotient.
IsQuotient(q, x, y) ==
    IF q.k = "inf"
    THEN q.s = Xor(x.s, y.s) /\ DLeq(DMul(FloatOverflow, DAbs(y)), DAbs(x))
    ELSE /\ q.k = "fin"
         /\ BBitLen(q.m) <= FloatBits
         /\ q.m = <<>> \/ q.e >= MinExp(FloatBits)
         /\ LET last == IF q.m = <<>> THEN MinExp(FloatBits)
                        ELSE Max(q.e + BBitLen(q.m) - FloatBits, MinExp(FloatBits))
            IN  DLeq(DMul(Pow2(1), DAbs(DSub(DMul(q, y), x))),
                     DMul(Pow2(last), DAbs(y)))

\* Does v fit the pixel type without rounding?
Fits(v) == Unsigned(Round(v.s, v.m, v.e, pixelBits)) = v

\* The correction of the pixel pair (c, r) with time scale q and darkScale
\* ds involves no rounding.
Unrounded(c, r, q, timed, ds) ==
    LET r1 == IF timed THEN DMul(r, q) ELSE r
        r2 == IF ~IsZero(ds) THEN DMul(r1, ds) ELSE r1
    IN  Fits(r1) /\ Fits(r2) /\ Fits(DSub(c, r2))

\* C3, amended: after a successful correction every pixel of the chunk is
\* chunkPixel - m * referencePixel as the routine's arithmetic evaluates it:
\* when the exposure times differ the reference pixel is multiplied by their
\* quotient taken in single precision (infinite when the reference's
\* EXPTIME is 0 or the quotient is beyond the floats), when darkScale is not
\* zero the result is multiplied by darkScale, and the result is subtracted
\* from the chunk pixel, each product formed in double and each of the three
\* results converted to the pixel type.  Where the quotient is exact and
\* nothing is rounded (EXPTIME 30 against 15, or 30 against 30 with
\* darkScale 1.5) the pixel is exactly chunkPixel - m * referencePixel.
C3_ScalingArithmetic ==
    \A t \in Tasks :
        Succeeded(t) =>
            LET e == ChunkExptime(t)
                me == MasterExptime(t)
                ds == isrPolicy.darkScale
                q == loc[t].scale
                timed == Unsigned(e) # Unsigned(me)
            IN  /\ timed => IF IsZero(me) THEN q = Inf(Xor(e.s, me.s))
                                          ELSE IsQuotient(q, e, me)
                /\ \A i \in 1..Len(pre[t].chunkPix) :
                      LET c == pre[t].chunkPix[i]
                          r == pre[t].masterPix[i]
                          r1 == IF timed THEN FMul(r, q, pixelBits) ELSE r
                          r2 == IF ~IsZero(ds) THEN FMul(r1, ds, pixelBits) ELSE r1
                      IN  /\ chunkPix[Chunk(t)][i] = FSub(c, r2, pixelBits)
                          /\ (~IsZero(me) /\ (timed => DMul(q, me) = Unsigned(e))
                                 /\ Unrounded(c, r, q, timed, ds))
                              => ClaimedPixel(chunkPix[Chunk(t)][i], c, r, e, me, ds)

\* A correction with both scalings has succeeded whose time scale is not
\* the exact quotient (EXPTIME 10 against 30, darkScale 1.5).
C3_Witness ==
    \E t \in Tasks :
        /\ Succeeded(t)
        /\ ChunkExptime(t) # MasterExptime(t)
        /\ ~IsZero(MasterExptime(t))
        /\ loc[t].scale.k = "fin"
        /\ loc[t].scale.m # <<>>
        /\ DMul(loc[t].scale, MasterExptime(t)) # ChunkExptime(t)
        /\ ~IsZero(isrPolicy.darkScale)

\* ---- C4
\* The exception is one the Idempotency Gate, the Geometry Matcher or the
\* Identity Matcher raises.
EarlyError(e) ==
    \/ e.type \in {"Runtime", "LengthError", "RangeError"}
    \/ e.type \in {"NotFound", "bad_any_cast"} /\ e.key \in {"AMPID", "CCDID"}
    \/ e.type = "NameNotFound" /\ e.key \in {"darkPolicy", "chunkType"}

\* C4 as stated: a failure in the gate or a matcher leaves the chunk's
\* pixels and metadata and the reference's pixels as they were, and every
\* call on a pair of unequal column or row counts fails with
\* DimensionMismatch.
C4_AsStated ==
    \A t \in Tasks :
        /\ Failed(t) /\ EarlyError(err[t]) => Untouched(t)
        /\ Finished(t) /\ DimsDiffer(t) => err[t] = DimensionMismatch /\ Untouched(t)

\* C4, amended: a failure in the gate or a matcher leaves the chunk's pixels
\* and metadata and the reference's pixels as they were; a call on a pair of
\* unequal column or row counts fails with DimensionMismatch when the chunk
\* carries no ISR_DARKCOR, with AlreadyCorrected when it does, and mutates
\* no pixel either way.
C4_EarlyFailuresClean ==
    \A t \in Tasks :
        /\ Failed(t) /\ EarlyError(err[t]) => Untouched(t)
        /\ Finished(t) /\ DimsDiffer(t) =>
              /\ err[t] = IF PreStamped(t) THEN AlreadyCorrected ELSE DimensionMismatch
              /\ Untouched(t)

\* A call on an uncorrected chunk and a reference of another shape has
\* failed with DimensionMismatch.
C4_Witness ==
    \E t \in Tasks :
        /\ Failed(t)
        /\ err[t] = DimensionMismatch
        /\ DimsDiffer(t)
        /\ ~PreStamped(t)

\* ---- C5
\* The call got as far as the Identity Matcher: the gate and the geometry
\* check passed and chunkType could be read.
ReachedIdentity(t) ==
    /\ Finished(t)
    /\ ~PreStamped(t)
    /\ ~DimsDiffer(t)
    /\ isrPolicy.dark
    /\ "chunkType" \in isrPolicy.keys

\* The call went on past the Identity Matcher.
Proceeded(t) ==
    \/ Succeeded(t)
    \/ Failed(t) /\ err[t].key \in {"EXPTIME", "darkScale"}

IdKey == IF isrPolicy.chunkType = "amp" THEN "AMPID" ELSE "CCDID"

\* C5: the Identity Matcher's outcome is decided by chunkType and its key K
\* (AMPID for "amp", CCDID for "ccd"): K missing on a side is
\* MissingMetadata (NotFound) naming that side, K differing is
\* IdentityMismatch (RangeError), K equal proceeds; any other chunkType
\* skips the check and proceeds whatever the identifiers are.
C5_IdentityOutcome ==
    \A t \in Tasks :
        ReachedIdentity(t) =>
            LET cm == pre[t].chunkMeta
                mm == masterMeta[Master(t)]
            IN  IF isrPolicy.chunkType \notin {"amp", "ccd"} THEN Proceeded(t)
                ELSE IF ~HasKey(cm, IdKey)
                     THEN err[t] = [type |-> "NotFound", key |-> IdKey, side |-> "chunk"]
                ELSE IF ~HasKey(mm, IdKey)
                     THEN err[t] = [type |-> "NotFound", key |-> IdKey, side |-> "master"]
                ELSE IF Entry(cm, IdKey).val # Entry(mm, IdKey).val
                     THEN err[t].type = "RangeError"
                ELSE Proceeded(t)

\* ---- C8
\* C8: a call that returns normally leaves ISR_DARKCOR = "Completed
\* Successfully" in the chunk's metadata, a call that fails adds no
\* ISR_DARKCOR entry, a chunk's metadata never holds more than one, and a
\* chunk that holds one has had the subtraction applied.
C8_Provenance ==
    /\ \A t \in Tasks :
          Succeeded(t) =>
              /\ HasKey(chunkMeta[Chunk(t)], "ISR_DARKCOR")
              /\ Entry(chunkMeta[Chunk(t)], "ISR_DARKCOR").val = StrVal("Completed Successfully")
    /\ \A t \in Tasks :
          Failed(t) =>
              Count(chunkMeta[Chunk(t)], "ISR_DARKCOR") = Count(pre[t].chunkMeta, "ISR_DARKCOR")
    /\ \A c \in Chunks :
          /\ Count(chunkMeta[c], "ISR_DARKCOR") <= 1
          /\ HasKey(chunkMeta[c], "ISR_DARKCOR") => OnePass(c)

\* A correction has returned normally, its chunk stamped and subtracted.
C8_Witness ==
    \E t \in Tasks :
        /\ Succeeded(t)
        /\ Count(chunkMeta[Chunk(t)], "ISR_DARKCOR") = 1
        /\ ~PreStamped(t)
        /\ OnePass(Chunk(t))

\* ---- C9
\* The responsibility a statement belongs to: 1 Idempotency Gate, 2 Geometry
\* Matcher, 3 Identity Matcher, 4 Signal Scaler, 5 Corrector and Provenance
\* Recorder.
Responsibility(p) ==
    CASE p = "gate" -> 1
      [] p = "geometry" -> 2
      [] p \in {"chunkType", "identity"} -> 3
      [] p \in {"exptime", "mexptime", "darkScale", "timeScale", "tsLoad",
                "tsStore", "darkScaleTest", "dsLoad", "dsStore"} -> 4
      [] OTHER -> 5

\* The chunk's state while its call stands at p: 0 Unchecked, 1 Validated,
\* 2 Scaled, 3 Corrected, 4 Stamped.
ChunkState(p) ==
    CASE p \in {"gate", "geometry", "chunkType", "identity"} -> 0
      [] p \in {"exptime", "mexptime", "darkScale", "timeScale", "tsLoad",
                "tsStore", "darkScaleTest", "dsLoad", "dsStore"} -> 1
      [] p \in {"subLoad", "subLoadC", "subLoadM", "subStore"} -> 2
      [] p \in {"addProperty", "setValue"} -> 3
      [] OTHER -> 4

\* A step of a running call stays in its responsibility or enters the next
\* one, and likewise for the chunk's state, unless it raises an exception.
InSequence(t) ==
    pc[t] \notin {"idle", "done", "failed"} /\ pc'[t] # pc[t] =>
        \/ pc'[t] = "failed"
        \/ /\ Responsibility(pc'[t]) \in {Responsibility(pc[t]), Responsibility(pc[t]) + 1}
           /\ ChunkState(pc'[t]) \in {ChunkState(pc[t]), ChunkState(pc[t]) + 1}

\* The preconditions a call's inputs break, by the stage that checks them:
\* 1 the gate, 2 the geometry, 3 the identity (its chunkType, or its
\* identifiers, which are to be ints), 4 the exposure times (which are to be
\* floats), 5 darkScale.
Broken(t) ==
    LET cm == pre[t].chunkMeta
        mm == masterMeta[Master(t)]
        typed == isrPolicy.dark /\ "chunkType" \in isrPolicy.keys
        checked == typed /\ isrPolicy.chunkType \in {"amp", "ccd"}
        isInt(meta, k) == HasKey(meta, k) /\ Entry(meta, k).val.kind = "int"
        isFloat(meta, k) == HasKey(meta, k) /\ Entry(meta, k).val.kind = "float"
    IN  (IF PreStamped(t) THEN {1} ELSE {})
        \cup (IF DimsDiffer(t) THEN {2} ELSE {})
        \cup (IF ~typed THEN {3} ELSE {})
        \cup (IF checked /\ (~isInt(cm, IdKey) \/ ~isInt(mm, IdKey)) THEN {3} ELSE {})
        \cup (IF checked /\ isInt(cm, IdKey) /\ isInt(mm, IdKey)
                 /\ Entry(cm, IdKey).val # Entry(mm, IdKey).val THEN {3} ELSE {})
        \cup (IF ~isFloat(cm, "EXPTIME") \/ ~isFloat(mm, "EXPTIME") THEN {4} ELSE {})
        \cup (IF "darkScale" \notin isrPolicy.keys THEN {5} ELSE {})

\* The stage whose check raises exception e (0 for none).
StageOf(e) ==
    CASE e.type = "none" -> 0
      [] e.type = "Runtime" -> 1
      [] e.type = "LengthError" -> 2
      [] e.type = "RangeError" -> 3
      [] e.type \in {"NotFound", "bad_any_cast"} /\ e.key \in {"AMPID", "CCDID"} -> 3
      [] e.type = "NameNotFound" /\ e.key \in {"darkPolicy", "chunkType"} -> 3
      [] e.type \in {"NotFound", "bad_any_cast"} /\ e.key = "EXPTIME" -> 4
      [] OTHER -> 5

\* The error of a finished call is that of the earliest stage whose
\* precondition its inputs break; it succeeds when they break none.
EarliestStageReports ==
    \A t \in Tasks :
        Finished(t) =>
            /\ Succeeded(t) <=> Broken(t) = {}
            /\ Failed(t) =>
                  /\ StageOf(err[t]) \in Broken(t)
                  /\ \A k \in Broken(t) : StageOf(err[t]) <= k

\* C9: the five responsibilities run in strict sequence, the chunk passes
\* through Unchecked, Validated, Scaled, Corrected, Stamped in that order
\* without skipping or going back, and an input that breaks several
\* preconditions gets the error of the earliest stage.
C9_StrictSequence ==
    /\ [][\A t \in Tasks : InSequence(t)]_vars
    /\ [](EarliestStageReports)

\* A call whose inputs break an identity precondition and an exposure-time
\* precondition has failed in the Identity Matcher.
C9_Witness ==
    \E t \in Tasks :
        /\ Failed(t)
        /\ {3, 4} \subseteq Broken(t)
        /\ StageOf(err[t]) = 3

\* ---- C10
\* C10: no error leaves a partial result: after any failed call, the Signal
\* Scaler's own failures included, the chunk's pixels and metadata and the
\* reference's pixels are as the call found them, and nothing has been
\* subtracted on its behalf.
C10_NoPartialSuccess ==
    \A t \in Tasks :
        Failed(t) =>
            /\ Untouched(t)
            /\ subCount[Chunk(t)] = [i \in 1..Len(subCount[Chunk(t)]) |-> IF PreStamped(t) THEN 1 ELSE 0]

\* A call whose exposure times differ has failed for want of darkScale.
C10_Witness ==
    \E t \in Tasks :
        /\ Failed(t)
        /\ err[t] = [type |-> "NameNotFound", key |-> "darkScale", side |-> "policy"]
        /\ HasKey(pre[t].chunkMeta, "EXPTIME")
        /\ HasKey(masterMeta[Master(t)], "EXPTIME")
        /\ ChunkExptime(t) # MasterExptime(t)

\* ---- C2
\* Both chunks have been corrected against reference m and no call is
\* running.
BothCorrectedAgainst(m) ==
    /\ \A t \in Tasks : pc[t] = "idle"
    /\ \A c \in Chunks : ref[c] = m /\ HasKey(chunkMeta[c], "ISR_DARKCOR")

\* C2: after two different chunks have been corrected against the same
\* shared reference, one after the other or at the same time, the
\* reference's pixels are what they were before the first correction.
C2_ReferenceImmutable ==
    \A m \in Masters : BothCorrectedAgainst(m) => masterPix[m] = origMasterPix[m]

\* ---- C6
\* The call of task t is the only one that has worked on its chunk.
AloneOnChunk(t) ==
    /\ \A u \in Tasks : u # t => arg[u].chunk # Chunk(t)
    /\ OnePass(Chunk(t))
    /\ ~PreStamped(t)

\* What the correction of the pixel pair (c, r) gives when it runs alone,
\* for exposure times e and me and darkScale ds.
SoloPixel(c, r, e, me, ds) ==
    LET r1 == IF Unsigned(e) # Unsigned(me) THEN FMul(r, FDiv(e, me), pixelBits) ELSE r
        r2 == IF ~IsZero(ds) THEN FMul(r1, ds, pixelBits) ELSE r1
    IN  FSub(c, r2, pixelBits)

\* C6: corrections of different chunks sharing one reference are
\* independent: however the calls are ordered or interleaved, a corrected
\* chunk holds what its correction alone would give against the original,
\* unscaled reference.
C6_Independent ==
    \A t \in Tasks :
        Succeeded(t) /\ AloneOnChunk(t) =>
            \A i \in 1..Len(chunkPix[Chunk(t)]) :
                chunkPix[Chunk(t)][i] =
                    SoloPixel(origChunkPix[Chunk(t)][i], origMasterPix[Master(t)][i],
                              ChunkExptime(t), MasterExptime(t), isrPolicy.darkScale)

\* ---- C7
\* Some pixel of chunk c has had the reference subtracted.
Subtracted(c) == \E i \in 1..Len(subCount[c]) : subCount[c][i] > 0

\* The chunk's metadata carries ISR_DARKCOR with the success value.
Stamped(c) ==
    /\ HasKey(chunkMeta[c], "ISR_DARKCOR")
    /\ Entry(chunkMeta[c], "ISR_DARKCOR").val = StrVal("Completed Successfully")

\* Chunk c can be observed by a task other than the one correcting it: no
\* call on it is between its gate and its end.
Observable(c) ==
    \A t \in Tasks : arg[t].chunk = c => pc[t] \in {"gate", "done", "failed"}

\* A call has come back to the gate of a chunk that an earlier call, now
\* over, subtracted the reference from and stamped.
C7_Witness ==
    \E t \in Tasks :
        /\ pc[t] = "gate"
        /\ Subtracted(Chunk(t))
        /\ Stamped(Chunk(t))
        /\ calls = MaxCalls

\* C7: the provenance write is the last mutation of a correction and is
\* atomic with respect to the Idempotency Gate's read: wherever a chunk can
\* be observed by another task (at a gate read above all), the reference
\* has not been subtracted from its pixels unless ISR_DARKCOR carries the
\* success value; and once it does, no step changes the chunk's pixels or
\* its metadata, also while corrections of other chunks are running.
C7_ProvenanceAtomic ==
    /\ [](\A c \in Chunks : Observable(c) /\ Subtracted(c) => Stamped(c))
    /\ [][\A c \in Chunks :
             Stamped(c) => chunkPix'[c] = chunkPix[c] /\ chunkMeta'[c] = chunkMeta[c]]_vars

====
